---- MODULE Spec2Model ----
(***************************************************************************)
(* State-machine model of src/scraperdb.py: CadastralDatabase (the sqlite  *)
(* store) and FastCadastralScraper (semaphore-gated fetches, batches,      *)
(* resume from MAX(parcel_id), batch-level retry).                         *)
(***************************************************************************)
EXTENDS Integers, Sequences, FiniteSets, TLC

\* ------------------------------------------------------------------ bounds
MaxId == 4          \* configured start_id / end_id range over 0..MaxId
MaxBatch == 2       \* batch_size ranges over 1..MaxBatch
MaxLimit == 2       \* the semaphore's initial value ranges over 1..MaxLimit
MaxStored == 2      \* a pre-existing store holds one row with id in 0..MaxStored
MaxErrors == 1      \* batch-level errors injected per run
MaxCrashes == 1     \* process terminations injected
MaxFailures == 1    \* fetches per run the remote answers with a failure
MaxForeign == 1     \* bodies SpecForeign's remote serves with a parcelId other than the id asked
MaxCalls == 2       \* insert_many calls of the store harness
MaxRecs == 2        \* records per harness call
MaxKey == 0         \* harness record keys range over 0..MaxKey
WindowSize == 2     \* entries the rolling window of batch durations keeps

\* asyncio.sleep(60) of the batch-level handler
Cooldown == 60

\* Python's None, as returned by dict.get for a missing key and by MAX() of
\* an empty table.
None == -1

VARIABLES
    start_id, end_id,       \* arguments of scrape_range
    batch_size,             \* self.batch_size
    limit,                  \* the value the semaphore was constructed with
    db,                     \* committed rows of table parcels (durable)
    tx,                     \* the connection's view: db plus uncommitted writes
    pending,                \* records executemany has still to execute
    pc,                     \* position of scrape_range / of the harness
    last_id,                \* local last_id of scrape_range
    current_id,             \* local current_id of scrape_range
    tasks,                  \* the coroutines of the batch being gathered
    sem,                    \* self.semaphore's free slots
    successful_requests, failed_requests,
    elapsed,                \* time.time() - batch_start_time
    batch_durations,        \* local batch_durations
    eta,                    \* int(eta_seconds) of the last progress line, or None
    \* history variables (not program state), used to state properties
    completed,              \* durations of all completed batch attempts of this run
    first_id,               \* current_id as first computed in this run
    db0,                    \* committed rows when this run's scrape_range began
    failed_batch,           \* current_id of the batch whose last attempt raised, or None
    issued,                 \* ids whose network call was issued in this run
    produced,               \* ids whose fetch resolved to a record in this run
    foreign,                \* bodies so far whose parcelId was not the id asked for
    errors,                 \* batch-level errors raised in this run
    crashes,                \* process terminations so far
    inflight,               \* ids of the batch unpersisted at the last termination
    db_before,              \* committed rows when the current insert_many began
    call,                   \* the records argument of the current insert_many
    last_write,             \* parcel_id -> val of its last committed insert
    tx_write,               \* the same, for the writes of the open transaction
    calls                   \* harness calls made

vars == <<start_id, end_id, batch_size, limit, db, tx, pending, pc, last_id,
          current_id, tasks, sem, successful_requests, failed_requests,
          elapsed, batch_durations, eta, completed,
          first_id, db0, failed_batch, issued, produced, foreign, errors,
          crashes, inflight,
          db_before, call, last_write, tx_write, calls>>

cfgVars == <<start_id, end_id, batch_size, limit>>
dbVars == <<db, tx, pending, db_before, call, last_write, tx_write>>
fetchVars == <<tasks, sem, successful_requests, failed_requests, issued,
               produced, foreign>>
etaVars == <<eta, completed>>
timeVars == <<elapsed, batch_durations, eta, completed>>
runVars == <<first_id, db0>>
errVars == <<errors, failed_batch>>

\* ------------------------------------------------------------- the store
Vals == {"a", "b"}
Row(k, v) == [parcel_id |-> k, val |-> v]
Keys(rows) == {r.parcel_id : r \in rows}

SetMax(S) == CHOOSE m \in S : \A x \in S : x <= m

\* SELECT MAX(parcel_id) FROM parcels
get_last_id(rows) == IF rows = {} THEN None ELSE SetMax(Keys(rows))

\* the rowid sqlite assigns to a row inserted with a NULL INTEGER PRIMARY KEY
NextRowid(rows) == IF rows = {} THEN 1 ELSE SetMax(Keys(rows)) + 1

KeyOf(rows, r) == IF r.parcel_id = None THEN NextRowid(rows) ELSE r.parcel_id

\* INSERT without conflict resolution that kept the old row too
InsertKeepingOld(rows, r) == rows \cup {Row(KeyOf(rows, r), r.val)}

\* INSERT OR REPLACE INTO parcels ... of one record
InsertOrReplace(rows, r) ==
    {x \in rows : x.parcel_id # KeyOf(rows, r)} \cup {Row(KeyOf(rows, r), r.val)}

\* leaving `with self.conn` by an exception without undoing the writes
RollbackKeeping(committed, working) == working

\* leaving `with self.conn` by an exception: the transaction is rolled back
Rollback(committed, working) == committed

Put(f, k, v) == [x \in DOMAIN f \cup {k} |-> IF x = k THEN v ELSE f[x]]
Merge(f, g) == [x \in DOMAIN f \cup DOMAIN g |-> IF x \in DOMAIN g THEN g[x] ELSE f[x]]
Empty == [x \in {} |-> 0]

\* ------------------------------------------------- get_parcel_info (fetch)
\* What the remote does with one request:
\*   "status"     response.status != 200
\*   "exception"  session.get or response.json() raises (timeout, reset, bad JSON)
\*   "empty"      status 200, falsy content
\*   "malformed"  status 200, truthy content that is no JSON object: content.get raises
\*   "body"       status 200, a JSON object carrying parcelId pid and fields val
Kinds == {"status", "exception", "empty", "malformed", "body"}
BodyVals == {"a"}
\* the parcelId a body may carry for a request of id other than id itself:
\* another identifier, or none (content.get returns None)
ForeignIds(id) == {id + 1, None}

NoRec == Row(None, "a")
Waiting == [st |-> "wait", rec |-> NoRec]
InNet == [st |-> "net", rec |-> NoRec]
Absent == [st |-> "absent", rec |-> NoRec]
Raised == [st |-> "raised", rec |-> NoRec]
Final == {"absent", "record", "raised"}

\* the handler of line 106 catching only transport errors
ReturnedNarrowExcept(kind, pid, v) ==
    IF kind = "body" THEN [st |-> "record", rec |-> Row(pid, v)]
    ELSE IF kind = "malformed" THEN Raised ELSE Absent

\* get_parcel_info without the test of line 81: an empty body goes on to the
\* field extraction and comes back as a record of None fields
ReturnedEmptyAsRecord(kind, pid, v) ==
    IF kind \in {"body", "empty"} THEN [st |-> "record", rec |-> Row(pid, v)]
    ELSE Absent

\* what get_parcel_info returns: the data dict of line 105, or None
Returned(kind, pid, v) ==
    IF kind = "body" THEN [st |-> "record", rec |-> Row(pid, v)] ELSE Absent

\* self.successful_requests += 1 (line 79, after response.json() returned)
SuccInc(kind) == IF kind \in {"empty", "malformed", "body"} THEN 1 ELSE 0
\* self.failed_requests += 1 (line 75, or the handler's line 107)
FailInc(kind) == IF kind \in {"status", "exception", "malformed"} THEN 1 ELSE 0

\* a semaphore that admits a coroutine whatever its value
MayEnterAlways(value) == TRUE

\* a semaphore that keeps its last slot back
MayEnterAboveOne(value) == value > 1

\* asyncio.Semaphore.acquire proceeds only while the value is positive
MayEnter(value) == value > 0

\* range(self.batch_size) cut at one identifier
BatchIdsOne(cur, size) == {cur}

\* a slot given back only on the paths that end without a failure
ReleaseUnlessFailed(value, kind) ==
    IF kind \in {"status", "exception"} THEN value ELSE value + 1

\* leaving `async with self.semaphore`, by a return on any path
Release(value, kind) == value + 1

\* range(self.batch_size + 1): one identifier of the next batch too
BatchIdsOverlap(cur, size) == {cur + i : i \in 0..size}

\* the identifiers process_batch creates coroutines for
BatchIds(cur, size) == {cur + i : i \in 0..(size - 1)}

\* `async with self.semaphore` entered; session.get issued. gather starts
\* the coroutines in argument order and asyncio.Semaphore wakes its waiters
\* first-in first-out, so the lowest waiting identifier enters first.
Acquire(id) ==
    /\ pc = "gather"
    /\ id \in DOMAIN tasks
    /\ tasks[id].st = "wait"
    /\ \A j \in DOMAIN tasks : j < id => tasks[j].st # "wait"
    /\ MayEnter(sem)
    /\ sem' = sem - 1
    /\ tasks' = [tasks EXCEPT ![id] = InNet]
    /\ issued' = issued \cup {id}
    /\ UNCHANGED <<cfgVars, dbVars, timeVars, pc, last_id, current_id,
                   successful_requests, failed_requests, produced, foreign,
                   runVars, errVars, crashes, inflight, calls>>

\* the response (or the exception) arrives: counters, return value, and the
\* coroutine leaves the semaphore
Respond(id, kind, pid, v) ==
    /\ pc = "gather"
    /\ id \in DOMAIN tasks
    /\ tasks[id].st = "net"
    /\ tasks' = [tasks EXCEPT ![id] = Returned(kind, pid, v)]
    /\ successful_requests' = successful_requests + SuccInc(kind)
    /\ failed_requests' = failed_requests + FailInc(kind)
    /\ produced' = IF kind = "body" THEN produced \cup {id} ELSE produced \ {id}
    /\ foreign' = foreign + (IF kind = "body" /\ pid # id THEN 1 ELSE 0)
    /\ sem' = Release(sem, kind)
    /\ elapsed' = elapsed + 1
    /\ UNCHANGED <<cfgVars, dbVars, batch_durations, etaVars, pc, last_id,
                   current_id, issued, runVars, errVars, crashes, inflight,
                   calls>>

\* the remote answers the request for id: a failure (a bounded number of
\* times per run), an empty body, or a body whose parcelId is the id asked for
Resolve(id) ==
    \E kind \in Kinds : \E v \in BodyVals :
        /\ (FailInc(kind) = 1) => (failed_requests < MaxFailures)
        /\ Respond(id, kind, IF kind = "body" THEN id ELSE None, v)

\* the remote answers the request for id with a body whose parcelId is
\* another identifier, or is missing
ResolveForeign(id) ==
    /\ foreign < MaxForeign
    /\ \E pid \in ForeignIds(id) : \E v \in BodyVals :
          Respond(id, "body", pid, v)

\* ------------------------------------------------------------ insert_many
\* one row of executemany, inside the transaction; writing it takes time
InsertRow ==
    /\ pc = "insert"
    /\ pending # <<>>
    /\ tx' = InsertOrReplace(tx, Head(pending))
    /\ tx_write' = Put(tx_write, KeyOf(tx, Head(pending)), Head(pending).val)
    /\ pending' = Tail(pending)
    /\ elapsed' = elapsed + 1
    /\ UNCHANGED <<cfgVars, fetchVars, batch_durations, etaVars, db, db_before,
                   call, last_write, pc, last_id, current_id, runVars, errVars,
                   crashes, inflight, calls>>

\* executemany or the commit raises: `with self.conn` rolls back and the
\* exception leaves insert_many
InsertFail ==
    /\ pc = "insert"
    /\ errors < MaxErrors
    /\ tx' = Rollback(db, tx)
    /\ tx_write' = Empty
    /\ errors' = errors + 1
    /\ failed_batch' = current_id
    /\ pc' = "except"
    /\ UNCHANGED <<cfgVars, fetchVars, timeVars, db, pending, db_before, call,
                   last_write,
                   last_id, current_id, runVars, crashes, inflight, calls>>

\* all rows executed: `with self.conn` commits
Commit ==
    /\ pc = "insert"
    /\ pending = <<>>
    /\ db' = tx
    /\ last_write' = Merge(last_write, tx_write)
    /\ tx_write' = Empty
    /\ pc' = "completed"
    /\ UNCHANGED <<cfgVars, fetchVars, timeVars, tx, pending, db_before, call,
                   last_id, current_id, runVars, errVars, crashes, inflight,
                   calls>>

\* ----------------------------------------------------------- scrape_range
\* a scan that always begins at the configured start
ResumePointIgnoringStore(last, start) == start

\* current_id = last_id + 1 if last_id else start_id  (None and 0 are falsy)
ResumePoint(last, start) == IF last # None /\ last # 0 THEN last + 1 ELSE start

\* a handler that falls through to line 157 instead of `continue`
AfterErrorAdvancing(cur, size) == cur + size

\* line 155: `continue` skips line 157, current_id keeps its value
AfterError(cur, size) == cur

\* current_id += self.batch_size
Advance(cur, size) == cur + size

\* the records of a finished batch in coroutine (ascending id) order, None dropped
RECURSIVE Results(_, _)
Results(t, ids) ==
    IF ids = {} THEN <<>>
    ELSE LET lo == CHOOSE x \in ids : \A y \in ids : x <= y
         IN  (IF t[lo].st = "record" THEN <<t[lo].rec>> ELSE <<>>)
             \o Results(t, ids \ {lo})

\* lines 119-123
ScrapeRangeStart ==
    /\ pc = "start"
    /\ last_id' = get_last_id(tx)
    /\ current_id' = ResumePoint(last_id', start_id)
    /\ first_id' = current_id'
    /\ db0' = db
    /\ batch_durations' = <<>>
    /\ completed' = <<>>
    /\ pc' = "loop"
    /\ UNCHANGED <<cfgVars, dbVars, fetchVars, elapsed, eta, errVars, crashes,
                   inflight, calls>>

\* lines 131-136: with a non-empty window the progress line is printed; its
\* percentage divides by end_id - start_id, outside the try block
ProgressRaises == batch_durations # <<>> /\ end_id = start_id

Sum(seq) == LET F[i \in 0..Len(seq)] == IF i = 0 THEN 0 ELSE F[i - 1] + seq[i]
            IN  F[Len(seq)]

\* lines 128-134: int(avg_duration * remaining_batches), the average taken
\* over the window and remaining_batches = (end - cur) / size
Eta(durations, cur, end, size) ==
    (Sum(durations) * (end - cur)) \div (Len(durations) * size)

\* lines 126-139, 111: the loop test holds; with a non-empty window the ETA
\* is computed; process_batch creates one coroutine per identifier and
\* awaits asyncio.gather
BatchStart ==
    /\ pc = "loop"
    /\ current_id < end_id
    /\ ~ProgressRaises
    /\ elapsed' = 0
    /\ eta' = IF batch_durations # <<>>
              THEN Eta(batch_durations, current_id, end_id, batch_size)
              ELSE eta
    /\ tasks' = [id \in BatchIds(current_id, batch_size) |-> Waiting]
    /\ pc' = "gather"
    /\ UNCHANGED <<cfgVars, dbVars, sem, successful_requests, failed_requests,
                   issued, produced, foreign, batch_durations, completed,
                   last_id, current_id, runVars, errVars, crashes, inflight,
                   calls>>

\* line 126: the loop test fails
LoopExit ==
    /\ pc = "loop"
    /\ ~(current_id < end_id)
    /\ pc' = "done"
    /\ UNCHANGED <<cfgVars, dbVars, fetchVars, timeVars, last_id, current_id,
                   runVars, errVars, crashes, inflight, calls>>

\* line 136 raises ZeroDivisionError: it leaves scrape_range, main reports a
\* fatal error and closes the store
ProgressFails ==
    /\ pc = "loop"
    /\ current_id < end_id
    /\ ProgressRaises
    /\ pc' = "fatal"
    /\ UNCHANGED <<cfgVars, dbVars, fetchVars, timeVars, last_id, current_id,
                   runVars, errVars, crashes, inflight, calls>>

\* a wait that returns as soon as one coroutine has finished
JoinedAny(t) == \E id \in DOMAIN t : t[id].st \in Final

\* line 112: asyncio.gather returns when every coroutine has finished
Joined(t) == \A id \in DOMAIN t : t[id].st \in Final

\* lines 112-113, 140-141: gather returns once every coroutine has finished
\* (or raises what a coroutine raised); the non-None results go to insert_many
Join ==
    /\ pc = "gather"
    /\ Joined(tasks)
    /\ LET batch_results == Results(tasks, DOMAIN tasks)
       IN  IF \E id \in DOMAIN tasks : tasks[id].st = "raised"
           THEN /\ pc' = "except"
                /\ errors' = errors + 1
                /\ failed_batch' = current_id
                /\ UNCHANGED <<pending, call, db_before>>
           ELSE IF batch_results # <<>>
           THEN /\ pc' = "insert"
                /\ pending' = batch_results
                /\ call' = batch_results
                /\ db_before' = db
                /\ UNCHANGED errVars
           ELSE /\ pc' = "completed"
                /\ UNCHANGED <<pending, call, db_before, errVars>>
    /\ tasks' = <<>>
    /\ UNCHANGED <<cfgVars, db, tx, last_write, tx_write, sem,
                   successful_requests, failed_requests, issued, produced,
                   foreign, timeVars, last_id, current_id, runVars, crashes,
                   inflight, calls>>

\* a window that drops its newest entry when full (pop() for pop(0))
WindowDropNewest(durations, d) ==
    LET appended == Append(durations, d)
    IN  IF Len(appended) > WindowSize
        THEN SubSeq(appended, 1, Len(appended) - 1) ELSE appended

\* lines 144-146: append, then pop(0) once the window holds more than its size
Window(durations, d) ==
    LET appended == Append(durations, d)
    IN  IF Len(appended) > WindowSize THEN Tail(appended) ELSE appended

\* lines 143-146 and 157: the batch completed (persisted or empty)
FinishBatch ==
    /\ pc = "completed"
    /\ calls = 0
    /\ batch_durations' = Window(batch_durations, elapsed)
    /\ completed' = Append(completed, elapsed)
    /\ current_id' = Advance(current_id, batch_size)
    /\ pc' = "loop"
    /\ failed_batch' = None
    /\ call' = <<>>
    /\ db_before' = db
    /\ UNCHANGED <<cfgVars, db, tx, pending, last_write, tx_write, fetchVars,
                   elapsed, eta, last_id, runVars, errors, crashes, inflight,
                   calls>>

\* lines 152-155: the handler sleeps and continues with the same current_id
Retry ==
    /\ pc = "except"
    /\ calls = 0
    /\ elapsed' = elapsed + Cooldown
    /\ current_id' = AfterError(current_id, batch_size)
    /\ pc' = "loop"
    /\ pending' = <<>>
    /\ call' = <<>>
    /\ db_before' = db
    /\ UNCHANGED <<cfgVars, db, tx, last_write, tx_write, fetchVars,
                   batch_durations, etaVars, last_id, runVars, errVars, crashes,
                   inflight, calls>>

\* the process is terminated and started again with the same arguments:
\* everything but the committed rows is lost (an open transaction never
\* reaches the database file)
Crash ==
    /\ pc \in {"loop", "gather", "insert", "completed", "except"}
    /\ calls = 0
    /\ crashes < MaxCrashes
    /\ crashes' = crashes + 1
    /\ inflight' = IF pc \in {"gather", "insert", "except"}
                   THEN BatchIds(current_id, batch_size) ELSE {}
    /\ tx' = db
    /\ pending' = <<>>
    /\ tx_write' = Empty
    /\ tasks' = <<>>
    /\ sem' = limit
    /\ successful_requests' = 0
    /\ failed_requests' = 0
    /\ batch_durations' = <<>>
    /\ elapsed' = 0
    /\ eta' = None
    /\ completed' = <<>>
    /\ issued' = {}
    /\ produced' = {}
    /\ errors' = 0
    /\ failed_batch' = None
    /\ pc' = "start"
    /\ call' = <<>>
    /\ db_before' = db
    /\ UNCHANGED <<cfgVars, db, last_write, foreign, last_id, current_id,
                   runVars, calls>>

\* ------------------------------------------------------- the store harness
Records == [parcel_id : (0..MaxKey) \cup {None}, val : Vals]
RecordSeqs == UNION {[1..n -> Records] : n \in 1..MaxRecs}

\* a caller hands insert_many a list of records
DbCall ==
    /\ pc = "harness"
    /\ calls < MaxCalls
    /\ \E recs \in RecordSeqs :
          /\ pending' = recs
          /\ call' = recs
    /\ db_before' = db
    /\ calls' = calls + 1
    /\ elapsed' = 0
    /\ pc' = "insert"
    /\ UNCHANGED <<cfgVars, fetchVars, batch_durations, etaVars, db, tx,
                   last_write, tx_write, last_id, current_id, runVars, errVars,
                   crashes, inflight>>

\* insert_many returned or raised to the harness
DbReturn ==
    /\ pc \in {"completed", "except"}
    /\ calls > 0
    /\ pc' = "harness"
    /\ errors' = 0
    /\ failed_batch' = None
    /\ pending' = <<>>
    /\ call' = <<>>
    /\ db_before' = db
    /\ UNCHANGED <<cfgVars, fetchVars, timeVars, db, tx, last_write,
                   tx_write, last_id, current_id, runVars, crashes, inflight,
                   calls>>

\* the process is terminated inside insert_many and the store is opened
\* again: the open transaction never reached the database file
DbKill ==
    /\ pc = "insert"
    /\ calls > 0
    /\ tx' = db
    /\ tx_write' = Empty
    /\ pending' = <<>>
    /\ call' = <<>>
    /\ db_before' = db
    /\ pc' = "harness"
    /\ UNCHANGED <<cfgVars, fetchVars, timeVars, db, last_write, last_id,
                   current_id, runVars, errVars, crashes, inflight, calls>>

\* ------------------------------------------------------- specifications
InitialStores == {{}} \cup {{Row(m, "b")} : m \in 0..MaxStored}

InitCommon ==
    /\ tx = db
    /\ pending = <<>>
    /\ last_id = None
    /\ current_id = 0
    /\ tasks = <<>>
    /\ sem = limit
    /\ successful_requests = 0
    /\ failed_requests = 0
    /\ elapsed = 0
    /\ batch_durations = <<>>
    /\ eta = None
    /\ completed = <<>>
    /\ first_id = 0
    /\ db0 = db
    /\ failed_batch = None
    /\ issued = {}
    /\ produced = {}
    /\ foreign = 0
    /\ errors = 0
    /\ crashes = 0
    /\ inflight = {}
    /\ db_before = db
    /\ call = <<>>
    /\ last_write = [k \in Keys(db) |-> (CHOOSE r \in db : r.parcel_id = k).val]
    /\ tx_write = Empty
    /\ calls = 0

\* FastCadastralScraper() constructed over a store, scrape_range not yet begun
Init ==
    /\ start_id \in 0..MaxId
    /\ end_id \in 0..MaxId
    /\ batch_size \in 1..MaxBatch
    /\ limit \in 1..MaxLimit
    /\ db \in InitialStores
    /\ pc = "start"
    /\ InitCommon

Next ==
    \/ ScrapeRangeStart
    \/ BatchStart
    \/ ProgressFails
    \/ LoopExit
    \/ \E id \in DOMAIN tasks : Acquire(id)
    \/ \E id \in DOMAIN tasks : Resolve(id)
    \/ Join
    \/ InsertRow
    \/ InsertFail
    \/ Commit
    \/ FinishBatch
    \/ Retry

Spec == Init /\ [][Next]_vars

NextCrash == Next \/ Crash

SpecCrash == Init /\ [][NextCrash]_vars

\* every identifier a coroutine can be created for
Ids == 0..(MaxId + MaxBatch)

\* the event loop runs every coroutine that can run (a waiter of the
\* semaphore is woken when a slot is free; scrape_range goes on when what
\* it awaits is done), and every network call eventually gets its answer.
\* Nothing obliges insert_many to fail.
Fairness ==
    /\ \A id \in Ids : WF_vars(Acquire(id))
    /\ \A id \in Ids : WF_vars(Resolve(id))
    /\ WF_vars(ScrapeRangeStart)
    /\ WF_vars(BatchStart)
    /\ WF_vars(ProgressFails)
    /\ WF_vars(LoopExit)
    /\ WF_vars(Join)
    /\ WF_vars(InsertRow)
    /\ WF_vars(Commit)
    /\ WF_vars(FinishBatch)
    /\ WF_vars(Retry)

\* the runs considered under fairness: a scan configured for the last two
\* identifiers below MaxId, or for the empty range at MaxId, over any of the
\* initial stores (so the scan may also resume from the store's maximum)
InitFair ==
    /\ Init
    /\ end_id = MaxId
    /\ start_id \in {MaxId - 2, MaxId}

SpecFair == InitFair /\ [][Next]_vars /\ Fairness

\* the scraper against a remote whose bodies need not carry the id asked for
NextForeign == Next \/ \E id \in DOMAIN tasks : ResolveForeign(id)

SpecForeign == Init /\ [][NextForeign]_vars

\* CadastralDatabase() alone, driven by calls of insert_many
InitDb ==
    /\ start_id = 0
    /\ end_id = 0
    /\ batch_size = 1
    /\ limit = 1
    /\ db = {}
    /\ pc = "harness"
    /\ InitCommon

NextDb ==
    \/ DbCall
    \/ InsertRow
    \/ InsertFail
    \/ Commit
    \/ DbReturn
    \/ DbKill

SpecDb == InitDb /\ [][NextDb]_vars

\* ------------------------------------------------------------ properties
Holding == {id \in DOMAIN tasks : tasks[id].st = "net"}
SetMin(S) == CHOOSE m \in S : \A x \in S : m <= x
Range == start_id..(end_id - 1)
\* the maximum parcel_id of the store as this run's scrape_range found it
M == SetMax(Keys(db0))

\* C1: at any moment the fetches inside the semaphore's guarded section
\* (slot acquired, not yet released) number at most the configured ceiling,
\* and the free slots plus the held ones always make up the ceiling.
C1_Ceiling ==
    /\ Cardinality(Holding) <= limit
    /\ sem >= 0
    /\ sem + Cardinality(Holding) = limit

\* C1 witness: a batch larger than the ceiling has filled every slot while
\* another of its fetches is still waiting to enter.
C1_Witness ==
    /\ batch_size > limit
    /\ Cardinality(Holding) = limit
    /\ \E id \in DOMAIN tasks : tasks[id].st = "wait"

\* C2: when the store's maximum parcel_id is M at the start of scrape_range
\* and the configured start_id is below M, the scan starts at M + 1, the
\* first (and lowest) identifier fetched is M + 1 and no identifier <= M is
\* ever fetched, retried batches included.
C2_Resume ==
    (pc # "start" /\ db0 # {} /\ start_id < M) =>
        /\ first_id = M + 1
        /\ \A id \in issued : id > M
        /\ issued # {} => SetMin(issued) = M + 1

\* C2 witness: a store with maximum M above start_id, the batch starting at
\* M + 1 fetched, failed at the batch level and fetched again.
C2_Witness ==
    /\ db0 # {}
    /\ start_id < M
    /\ errors > 0
    /\ pc = "completed"
    /\ M + 1 \in issued

\* C3 (as claimed): the first identifier fetched is max(M + 1, start_id) for
\* a store with maximum M, and start_id for an empty store.
C3_StartIsMax ==
    (pc # "start" /\ issued # {}) =>
        SetMin(issued) = IF db0 = {} THEN start_id
                         ELSE IF M + 1 > start_id THEN M + 1 ELSE start_id

\* C4 (as claimed): every identifier fetched lies in [first current_id,
\* end_id); the last batch is cut at end_id.
C4_WithinRange ==
    \A id \in issued : first_id <= id /\ id < end_id

\* the value of the last record of recs that names key k
LastVal(recs, k) ==
    LET last == CHOOSE i \in DOMAIN recs :
                    /\ recs[i].parcel_id = k
                    /\ \A j \in DOMAIN recs : recs[j].parcel_id = k => j <= i
    IN  recs[last].val
\* every record of recs that names a parcel_id has its row in rows (the row
\* of a parcel_id named more than once is that of its last record)
AllPresent(recs, rows) ==
    \A i \in DOMAIN recs :
        recs[i].parcel_id # None =>
            Row(recs[i].parcel_id, LastVal(recs, recs[i].parcel_id)) \in rows
UniqueKeys(rows) == \A r1, r2 \in rows : r1.parcel_id = r2.parcel_id => r1 = r2

\* C5: insert_many is all-or-nothing. While a call is executing, the
\* committed store is the one from before the call; a call that ends by an
\* exception or by the termination of the process leaves exactly the rows
\* from before the call, in the store and in the connection's view; a call
\* that returns has committed a row for every record it was given.
C5_AllOrNothing ==
    /\ [](pc = "insert" => db = db_before)
    /\ [](pc # "insert" => tx = db)
    /\ [][(pc = "insert" /\ pc' # "insert") =>
            IF pc' = "completed"
            THEN db' = tx /\ AllPresent(call, db')
            ELSE db' = db_before /\ tx' = db_before]_vars

\* C5 witness: a call of two records over a non-empty store raised after
\* its first row had been written inside the transaction.
C5_Witness ==
    /\ pc = "except"
    /\ Len(call) = 2
    /\ Len(pending) = 1
    /\ db # {}
    /\ db = db_before

\* C6 (as claimed): after a termination with a batch in flight, the next
\* run starts at the maximum persisted id + 1 (at start_id over an empty
\* store), and every identifier of the batch that was in flight has been
\* fetched again by the time the new run is done. Stated for the restarts
\* most favourable to the claim: bodies keyed by the id asked for, and a
\* store that is empty or has a positive maximum.
C6_CrashRestart ==
    (/\ crashes > 0
     /\ pc # "start"
     /\ inflight # {}
     /\ foreign = 0
     /\ (db0 = {} \/ M > 0)) =>
        /\ first_id = IF db0 = {} THEN start_id ELSE M + 1
        /\ pc = "done" => inflight \subseteq issued

\* C7: a batch-level error never advances the scan. Entering the handler
\* and leaving it keep current_id; the handler leads back to the loop test,
\* and the step after it starts the batch [current_id, current_id +
\* batch_size) of the failed attempt afresh, never the next batch or the exit.
C7_RetrySameBatch ==
    /\ [][(pc' = "except" /\ pc # "except") => current_id' = current_id]_vars
    /\ [][pc = "except" => (pc' = "loop" /\ current_id' = current_id)]_vars
    /\ [][(pc = "loop" /\ failed_batch # None) =>
            /\ pc' = "gather"
            /\ current_id' = failed_batch
            /\ DOMAIN tasks' = {failed_batch + i : i \in 0..(batch_size - 1)}
            /\ \A id \in DOMAIN tasks' : tasks'[id] = Waiting]_vars

\* C7 witness: a batch whose attempt raised has been attempted again and
\* has completed, with current_id still at that batch.
C7_Witness ==
    /\ pc = "completed"
    /\ errors > 0
    /\ failed_batch = current_id
    /\ current_id > first_id

\* C8: every fetch ends by returning a record or None, whatever the remote
\* did; no coroutine ends by an exception, so gather never raises and the
\* wait for a batch is never left for the batch-level handler.
C8_NoEscape ==
    /\ [](\A id \in DOMAIN tasks : tasks[id].st \in {"wait", "net", "absent", "record"})
    /\ [][pc = "gather" => pc' \in {"gather", "insert", "completed"}]_vars

\* C8 witness: a batch of two completed without a batch-level error
\* although one of its fetches got a 200 answer that is no JSON object
\* (counted on both counters); the other left a record.
C8_Witness ==
    /\ pc = "completed"
    /\ errors = 0
    /\ current_id = first_id
    /\ batch_size = 2
    /\ successful_requests + failed_requests > Cardinality(issued)
    /\ failed_requests = 1
    /\ Len(call) = 1

\* C9: a run from an empty store over [start_id, end_id), the length a
\* multiple of batch_size, without a batch-level error, against a remote
\* whose bodies carry the parcelId they were asked for: every identifier of
\* the range is fetched, none outside it, and the stored parcel ids are
\* exactly the identifiers answered with status 200 and a non-empty body.
C9_Coverage ==
    (/\ pc = "done"
     /\ db0 = {}
     /\ errors = 0
     /\ foreign = 0
     /\ start_id <= end_id
     /\ (end_id - start_id) % batch_size = 0) =>
        /\ issued = Range
        /\ produced \subseteq Range
        /\ Keys(db) = produced

\* C9 witness: such a run of at least two batches of at least two
\* identifiers, some answered with a body and some not.
C9_Witness ==
    /\ pc = "done"
    /\ db0 = {}
    /\ errors = 0
    /\ foreign = 0
    /\ batch_size >= 2
    /\ end_id - start_id >= 2 * batch_size
    /\ (end_id - start_id) % batch_size = 0
    /\ produced # {}
    /\ produced # Range
    /\ Keys(db) = produced

\* C10: the store holds at most one row per parcel_id, in the committed
\* rows and inside a transaction; the row of a parcel_id carries the values
\* of the last committed insert of that id; inserting a record that names
\* its parcel_id a second time changes nothing.
C10_Upsert ==
    /\ UniqueKeys(db)
    /\ UniqueKeys(tx)
    /\ Keys(db) = DOMAIN last_write
    /\ \A k \in DOMAIN last_write : Row(k, last_write[k]) \in db
    /\ \A r \in Records :
          r.parcel_id # None =>
              InsertOrReplace(InsertOrReplace(tx, r), r) = InsertOrReplace(tx, r)

\* C10 witness: a committed call replaced the row of a parcel_id that the
\* store already held with other field values.
C10_Witness ==
    /\ pc = "completed"
    /\ \E r \in db_before : \E i \in DOMAIN call :
          /\ call[i].parcel_id = r.parcel_id
          /\ call[i].val # r.val
          /\ Row(r.parcel_id, call[i].val) \in db
          /\ r \notin db

\* the identifiers of the batch whose fetch returned a record
WithRecord(t) == {id \in DOMAIN t : t[id].st = "record"}
Unresolved(t) == {id \in DOMAIN t : t[id].st \in {"wait", "net"}}

\* C11: insert_many is entered only from the join of a batch attempt, when
\* each of the batch_size fetches of [current_id, current_id + batch_size)
\* has resolved to a record or to None, and it is given exactly the records
\* of that attempt; while it runs no fetch is unresolved; it is entered at
\* most once per attempt: it ends in completion or in the handler, and both
\* lead back to the loop test.
C11_Barrier ==
    /\ [](pc = "insert" => Unresolved(tasks) = {})
    /\ [][(pc' = "insert" /\ pc # "insert") =>
            /\ pc = "gather"
            /\ DOMAIN tasks = {current_id + i : i \in 0..(batch_size - 1)}
            /\ Unresolved(tasks) = {}
            /\ \A id \in DOMAIN tasks : tasks[id].st \in {"absent", "record"}
            /\ pending' = call'
            /\ Len(call') = Cardinality(WithRecord(tasks))
            /\ \A id \in WithRecord(tasks) :
                  \E i \in DOMAIN call' : call'[i] = tasks[id].rec
            /\ \A i \in DOMAIN call' :
                  \E id \in WithRecord(tasks) : call'[i] = tasks[id].rec]_vars
    /\ [][pc = "insert" => pc' \in {"insert", "completed", "except"}]_vars
    /\ [][(pc = "completed" \/ pc = "except") => (pc' = "loop")]_vars

\* C11 witness: insert_many is running on the one record of a batch of two
\* fetches that went through a ceiling of one, the other fetch having failed.
C11_Witness ==
    /\ pc = "insert"
    /\ batch_size = 2
    /\ limit = 1
    /\ Len(call) = 1
    /\ failed_requests = 1
    /\ successful_requests = 1

\* C12: batches are strictly sequential. Every fetch that exists belongs to
\* the batch [current_id, current_id + batch_size) and is unresolved only
\* while that batch is being gathered; no identifier of a later batch has
\* been issued; once a batch has completed and the scan has moved on, every
\* identifier issued lies below current_id; and current_id moves on only
\* from a batch that was found empty or whose records are all committed,
\* with no fetch left.
C12_Sequential ==
    /\ [](\A id \in DOMAIN tasks :
             current_id <= id /\ id < current_id + batch_size)
    /\ [](pc # "gather" => Unresolved(tasks) = {})
    /\ [](\A id \in issued : id < current_id + batch_size)
    /\ []((pc = "loop" /\ failed_batch = None) =>
             \A id \in issued : id < current_id)
    /\ [][(issued' # issued) =>
            /\ pc = "gather"
            /\ \A id \in issued' \ issued :
                  current_id <= id /\ id < current_id + batch_size]_vars
    /\ [][(current_id' # current_id /\ pc # "start") =>
            /\ pc = "completed"
            /\ Unresolved(tasks) = {}
            /\ (call = <<>> \/ AllPresent(call, db))]_vars

\* C12 witness: the second batch of a run has a fetch in the network, the
\* first batch's record being committed.
C12_Witness ==
    /\ pc = "gather"
    /\ db0 = {}
    /\ current_id = first_id + batch_size
    /\ Holding # {}
    /\ \E r \in db : r.parcel_id = first_id

\* the steps of C13 that the code keeps: current_id never decreases, moves
\* only by +batch_size and only from a completed batch attempt, and a batch
\* is started only while current_id < end_id
C13_Steps ==
    /\ [][(pc # "start") =>
            /\ current_id' >= current_id
            /\ (current_id' # current_id) =>
                  /\ current_id' = current_id + batch_size
                  /\ pc = "completed"
                  /\ failed_batch' = None]_vars
    /\ [][(pc' = "gather" /\ pc # "gather") => current_id < end_id]_vars
    /\ [](pc = "done" => current_id >= end_id)

\* C13 (as claimed): current_id never decreases and changes only by
\* +batch_size, as the step after a batch attempt that completed; no batch
\* is started with current_id >= end_id; and whenever the loop has been
\* left, normally or by an exception, current_id >= end_id.
C13_Monotone ==
    /\ C13_Steps
    /\ [](pc \in {"done", "fatal"} => current_id >= end_id)

\* C14: slot accounting. A fetch leaves the waiting state only into the
\* network call and takes exactly one free slot as it does; it leaves the
\* network call only resolved (record or None) and gives exactly one slot
\* back, whatever the outcome; the free slots change in no other way and
\* by one fetch at a time; free plus held slots are the ceiling; and once
\* a join has completed every slot is free.
C14_SlotAccounting ==
    /\ [][(pc = "gather" /\ pc' = "gather") =>
            /\ \A id \in DOMAIN tasks :
                  /\ (tasks[id].st = "wait" /\ tasks'[id].st # "wait") =>
                        /\ tasks'[id].st = "net"
                        /\ sem > 0
                        /\ sem' = sem - 1
                  /\ (tasks[id].st = "net" /\ tasks'[id].st # "net") =>
                        /\ tasks'[id].st \in {"absent", "record"}
                        /\ sem' = sem + 1
                  /\ tasks[id].st \in {"absent", "record"} => tasks'[id] = tasks[id]
            /\ (sem' # sem) =>
                  Cardinality({id \in DOMAIN tasks : tasks'[id].st # tasks[id].st}) = 1]_vars
    /\ [][(sem' # sem) => (pc = "gather" /\ pc' = "gather")]_vars
    /\ [](sem = limit - Cardinality(Holding))
    /\ [](pc # "gather" => sem = limit)
    /\ [][(pc = "gather" /\ pc' # "gather") => (sem = limit /\ sem' = limit)]_vars

\* C14 witness: two batches of two fetches through a ceiling of one have
\* joined, one fetch having failed, one having got an empty body and two a
\* record, and every slot is free.
C14_Witness ==
    /\ pc = "completed"
    /\ batch_size = 2
    /\ limit = 1
    /\ current_id = first_id + batch_size
    /\ failed_requests = 1
    /\ successful_requests = 3
    /\ Cardinality(produced) = 2
    /\ sem = limit

\* C15: under the fairness of SpecFair (the event loop runs what can run and
\* every network call resolves), a fetch that is waiting for a slot
\* eventually holds one, for batch sizes below, at and above the ceiling: a
\* waiting fetch stops waiting only by entering the network call with a
\* slot taken, and again and again no fetch is left waiting.
C15_NoStarvation ==
    /\ [][\A id \in DOMAIN tasks :
            tasks[id].st = "wait" =>
                /\ id \in DOMAIN tasks'
                /\ tasks'[id].st \in {"wait", "net"}
                /\ (tasks'[id].st = "net") => (sem' = sem - 1)]_vars
    /\ []<>(\A id \in DOMAIN tasks : tasks[id].st # "wait")

\* C15 witness: with a ceiling of one and a batch of two, the last fetch of
\* the batch has entered the network call after the first one gave its
\* slot back.
C15_Witness ==
    /\ pc = "gather"
    /\ batch_size > limit
    /\ tasks[current_id].st \in {"absent", "record"}
    /\ tasks[current_id + batch_size - 1].st = "net"

\* C16: a fetch answered with a non-success status, an exception or an empty
\* body never contributes a row. Only a fetch the remote answered with
\* status 200 and a non-empty body holds a record; every row of the store
\* and of the open transaction was there when the run began or has the id
\* of such a fetch; and the committed rows change only when insert_many
\* commits the records of a joined batch attempt.
C16_NoRowFromFailure ==
    /\ [](\A id \in DOMAIN tasks : tasks[id].st = "record" => id \in produced)
    /\ [](\A r \in db \cup tx : r \in db0 \/ r.parcel_id \in produced)
    /\ [][(db' # db) =>
            /\ pc = "insert"
            /\ pc' = "completed"
            /\ pending = <<>>
            /\ \A r \in db' \ db : \E i \in DOMAIN call : call[i] = r]_vars

\* C16 witness: from an empty store, a batch of two fetches has been
\* committed; the first fetch failed and only the second left a row.
C16_Witness ==
    /\ pc = "completed"
    /\ db0 = {}
    /\ errors = 0
    /\ batch_size = 2
    /\ current_id = first_id
    /\ failed_requests = 1
    /\ successful_requests = 1
    /\ Keys(db) = {current_id + 1}

\* the last n entries of seq (all of them when it has fewer)
LastN(seq, n) ==
    IF Len(seq) <= n THEN seq ELSE SubSeq(seq, Len(seq) - n + 1, Len(seq))

\* C17: the rolling window never holds more than WindowSize durations; it is
\* always the durations of the most recent completed batch attempts, in
\* completion order; it changes only when an attempt completes, by the
\* duration of that attempt, so an attempt that ends in the batch-level
\* handler adds nothing; and the ETA computed when a batch starts is the
\* one of the window of the attempts completed before, which the start of
\* the batch leaves as it is.
C17_Window ==
    /\ [](Len(batch_durations) <= WindowSize)
    /\ [](batch_durations = LastN(completed, WindowSize))
    /\ [][(batch_durations' # batch_durations /\ pc # "start") =>
            /\ pc = "completed"
            /\ batch_durations'[Len(batch_durations')] = elapsed]_vars
    /\ [][(pc = "except" \/ pc' = "except") =>
            batch_durations' = batch_durations]_vars
    /\ [][(pc = "loop" /\ pc' = "gather") =>
            /\ batch_durations' = batch_durations
            /\ (completed # <<>>) =>
                  eta' = Eta(LastN(completed, WindowSize), current_id, end_id,
                             batch_size)]_vars

\* C17 witness: more attempts have completed than the window holds, one
\* attempt ended in the handler, the two entries kept differ, and the ETA
\* of the batch being gathered has been computed from them.
C17_Witness ==
    /\ pc = "gather"
    /\ errors > 0
    /\ Len(completed) > WindowSize
    /\ Len(batch_durations) = WindowSize
    /\ batch_durations[1] # batch_durations[WindowSize]
    /\ completed[1] # batch_durations[1]
    /\ eta # None

\* the part of C18 that the code keeps: under the fairness of SpecFair every
\* run ends, in Done with current_id >= end_id or in the fatal error of the
\* progress line, which needs an empty configured range and a resume point
\* below it; and from a batch-level error until that batch completes,
\* current_id stays at the failed batch and Done is not reached.
C18_Ends ==
    /\ <>((pc = "done" /\ current_id >= end_id) \/ pc = "fatal")
    /\ [](pc = "fatal" => (start_id = end_id /\ first_id < start_id))
    /\ [](failed_batch # None => (current_id = failed_batch /\ pc # "done"))

\* C18 (as claimed): under the fairness of SpecFair, with every network
\* call resolving and finitely many batch-level errors, scrape_range
\* eventually reaches Done with current_id >= end_id; and from a
\* batch-level error until that batch completes, current_id stays at the
\* failed batch and Done is not reached.
C18_Termination ==
    /\ <>(pc = "done" /\ current_id >= end_id)
    /\ [](failed_batch # None => (current_id = failed_batch /\ pc # "done"))

\* C19 (as claimed): every fetch that resolves adds exactly one to exactly
\* one of successful_requests and failed_requests, the counters change at
\* no other step, and after the first batch attempt of a run their sum is
\* the number of fetches resolved.
C19_Counters ==
    /\ [][(\E id \in DOMAIN tasks :
              /\ id \in DOMAIN tasks'
              /\ tasks[id].st = "net"
              /\ tasks'[id].st # "net") =>
            \/ /\ successful_requests' = successful_requests + 1
               /\ failed_requests' = failed_requests
            \/ /\ successful_requests' = successful_requests
               /\ failed_requests' = failed_requests + 1]_vars
    /\ [][(successful_requests' # successful_requests
            \/ failed_requests' # failed_requests) => pc = "gather"]_vars
    /\ []((pc = "completed" /\ errors = 0 /\ current_id = first_id) =>
            successful_requests + failed_requests = batch_size)

\* C20 (as claimed): every row persisted by this run has the identifier of
\* a fetch issued in it, inside the range of a batch gathered, so the
\* store's maximum never passes the highest identifier fetched (or the
\* maximum the run found).
C20_KeyAgreement ==
    /\ \A r \in db \ db0 : r.parcel_id \in issued
    /\ \A k \in Keys(db) : k \in Keys(db0) \/ \E id \in issued : k <= id

====
